---- MODULE Spec2Model ----
(***************************************************************************)
(* Model of scripts/ar_diagnosis.py: the allergic-rhinitis decision        *)
(* procedure.  Four independent components are modelled, each under its    *)
(* own specification:                                                      *)
(*   SpecDiff   - ARDiagnostic.differential_diagnosis                      *)
(*   SpecPlan   - TreatmentPlanner.generate_treatment_plan                 *)
(*   SpecDanger - DangerSignalDetector.check_danger_signals                *)
(*   SpecScore  - Symptoms.validate / calculate_tnss / classify_severity   *)
(* Chinese string literals of the source are written as ASCII tokens; two  *)
(* literals are the same token iff they are the same string in the source. *)
(***************************************************************************)
EXTENDS Integers, Sequences, FiniteSets, TLC

VARIABLES
    dpc,            \* position inside differential_diagnosis
    symptoms_dict,  \* its argument: a partial map from signal names to values
    result,         \* its result dict
    ppc,            \* position of the caller of generate_treatment_plan
    plan_args,      \* (severity, pattern, patient, symptoms)
    plan,           \* the returned plan dict
    gpc,            \* position of the caller of check_danger_signals
    user_input,     \* its argument: a sequence of characters
    detected,       \* its result list
    spc,            \* position inside the scoring pipeline
    symptoms,       \* the Symptoms object
    tnss,           \* result of calculate_tnss
    severity        \* result of classify_severity

vars == <<dpc, symptoms_dict, result, ppc, plan_args, plan,
          gpc, user_input, detected, spc, symptoms, tnss, severity>>

diffVars   == <<dpc, symptoms_dict, result>>
planVars   == <<ppc, plan_args, plan>>
dangerVars == <<gpc, user_input, detected>>
scoreVars  == <<spc, symptoms, tnss, severity>>

(***************************************************************************)
(* Bounds                                                                  *)
(***************************************************************************)
MaxPresent == 3      \* most keys present in an enumerated symptoms_dict
MaxAge     == 2      \* patient ages 0..MaxAge (and 35)
MaxLevel   == 2      \* nasal_itch and nasal_congestion range over 1..MaxLevel in plans
MaxField   == 4      \* Symptoms fields range over -1..MaxField before validation
MaxFragments == 2    \* enumerated texts are made of at most MaxFragments fragments

(***************************************************************************)
(* Generic helpers                                                         *)
(***************************************************************************)
RECURSIVE SeqSum(_)
SeqSum(s) == IF s = <<>> THEN 0 ELSE Head(s) + SeqSum(Tail(s))

InSeq(x, s) == \E i \in 1..Len(s) : s[i] = x

\* the subsequence of s whose elements satisfy keep[i]
RECURSIVE SelectIdx(_, _, _)
SelectIdx(s, keep, i) ==
    IF i > Len(s) THEN <<>>
    ELSE (IF keep[i] THEN <<s[i]>> ELSE <<>>) \o SelectIdx(s, keep, i + 1)

(***************************************************************************)
(* differential_diagnosis: the input map                                   *)
(***************************************************************************)
BoolKeys ==
    {"has_fever", "sore_throat", "yellow_discharge", "body_ache",
     "purulent_discharge", "facial_pain", "loss_of_smell", "headache",
     "cold_air_trigger", "odor_trigger", "position_trigger",
     "significant_itch", "has_allergen",
     "has_sneeze", "has_clear_discharge", "has_nasal_congestion", "recurrent"}

DurationValues == {3, 10, 11}

\* dict.get(key) used as a condition: a missing key gives None, which is falsy
GetTruthy(d, k) == k \in DOMAIN d /\ d[k] = TRUE

\* dict.get(key, True) used as a condition: a missing key gives True
GetDefaultTrue(d, k) == IF k \in DOMAIN d THEN d[k] = TRUE ELSE TRUE

\* dict.get('duration_days', 999)
GetDuration(d) == IF "duration_days" \in DOMAIN d THEN d["duration_days"] ELSE 999

BoolDicts(n) ==
    UNION { [S -> BOOLEAN] : S \in { T \in SUBSET BoolKeys : Cardinality(T) <= n } }

WithDuration(d, v) ==
    [k \in DOMAIN d \cup {"duration_days"} |->
        IF k = "duration_days" THEN v ELSE d[k]]

BoundedDicts ==
    BoolDicts(MaxPresent)
    \cup { WithDuration(d, v) : d \in BoolDicts(MaxPresent - 1), v \in DurationValues }

AllTrue(S) == [k \in S |-> TRUE]

\* the inputs of the demonstration harness, and the six-signal input
cold_symptoms ==
    [k \in {"duration_days", "has_fever", "sore_throat", "yellow_discharge",
            "body_ache", "has_sneeze", "has_clear_discharge"} |->
        CASE k = "duration_days" -> 3
          [] k \in {"yellow_discharge", "has_clear_discharge"} -> FALSE
          [] OTHER -> TRUE]

sinusitis_symptoms ==
    WithDuration(AllTrue({"purulent_discharge", "facial_pain", "loss_of_smell",
                          "has_fever", "headache"}), 15)

vasomotor_symptoms ==
    [k \in {"duration_days", "cold_air_trigger", "odor_trigger", "significant_itch",
            "has_allergen", "has_sneeze", "has_nasal_congestion"} |->
        CASE k = "duration_days" -> 60
          [] k \in {"significant_itch", "has_allergen"} -> FALSE
          [] OTHER -> TRUE]

SixSignals ==
    {"has_sneeze", "has_clear_discharge", "significant_itch",
     "has_nasal_congestion", "recurrent", "has_allergen"}

ar_symptoms_dict ==
    [k \in SixSignals \cup {"duration_days", "has_fever", "purulent_discharge",
                            "cold_air_trigger"} |->
        CASE k = "duration_days" -> 30
          [] k \in SixSignals -> TRUE
          [] OTHER -> FALSE]

ExampleDicts ==
    {cold_symptoms, sinusitis_symptoms, vasomotor_symptoms, ar_symptoms_dict,
     AllTrue(SixSignals)}

InputDicts == BoundedDicts \cup ExampleDicts

(***************************************************************************)
(* differential_diagnosis: the four stages                                 *)
(***************************************************************************)
Weight(cond, w) == IF cond THEN w ELSE 0

ColdConds(d) ==
    << GetDuration(d) <= 10, GetTruthy(d, "has_fever"), GetTruthy(d, "sore_throat"),
       GetTruthy(d, "yellow_discharge"), GetTruthy(d, "body_ache") >>
ColdWeights == <<2, 2, 1, 1, 1>>
ColdSignNames == <<"duration_lt_10d", "fever", "sore_throat", "yellow_discharge", "body_ache">>

SinusitisConds(d) ==
    << GetTruthy(d, "purulent_discharge"), GetTruthy(d, "facial_pain"),
       GetTruthy(d, "loss_of_smell"), GetTruthy(d, "has_fever"),
       GetTruthy(d, "headache") >>
SinusitisWeights == <<3, 2, 2, 1, 1>>
SinusitisSignNames == <<"purulent_discharge", "facial_pain", "loss_of_smell", "fever", "headache">>

VasomotorConds(d) ==
    << GetTruthy(d, "cold_air_trigger"), GetTruthy(d, "odor_trigger"),
       GetTruthy(d, "position_trigger"),
       ~GetDefaultTrue(d, "significant_itch"),
       ~GetTruthy(d, "has_allergen") >>
VasomotorWeights == <<2, 2, 1, 2, 1>>
VasomotorSignNames == <<"cold_air", "odor", "position", "itch_not_significant", "no_allergen">>

ArConds(d) ==
    << GetTruthy(d, "has_sneeze"), GetTruthy(d, "has_clear_discharge"),
       GetTruthy(d, "significant_itch"), GetTruthy(d, "has_nasal_congestion"),
       GetTruthy(d, "recurrent"), GetTruthy(d, "has_allergen") >>
\* every AR sign weighted 1
ArWeights_Flat == <<1, 1, 1, 1, 1, 1>>
ArWeights == <<1, 1, 2, 1, 1, 2>>

Score(conds, weights) ==
    SeqSum([i \in 1..Len(conds) |-> Weight(conds[i], weights[i])])

cold_score(d)      == Score(ColdConds(d), ColdWeights)
sinusitis_score(d) == Score(SinusitisConds(d), SinusitisWeights)
vasomotor_score(d) == Score(VasomotorConds(d), VasomotorWeights)
ar_score(d)        == Score(ArConds(d), ArWeights)

ColdThreshold      == 3
SinusitisThreshold == 4
VasomotorThreshold == 4
ArThreshold        == 5

ColdLabel      == "cold_excluded"
SinusitisLabel == "sinusitis_excluded"
VasomotorLabel == "vasomotor_excluded"

Finding(name, score, high, conds, names) ==
    [name |-> name,
     confidence |-> IF score >= high THEN "high" ELSE "medium",
     signs |-> SelectIdx(names, conds, 1)]

EmptyResult ==
    [excluded_diseases |-> <<>>, suspected_diseases |-> <<>>,
     can_proceed_to_ar |-> FALSE, suggestions |-> <<>>]

\* Stage without the return after a finding is appended
Stage_NoReturn(here, next, score, threshold, finding, label) ==
    /\ dpc = here
    /\ IF score >= threshold
       THEN result' = [result EXCEPT !.suspected_diseases = Append(@, finding)]
       ELSE result' = [result EXCEPT !.excluded_diseases = Append(@, label)]
    /\ dpc' = next
    /\ UNCHANGED <<symptoms_dict, planVars, dangerVars, scoreVars>>

\* one stage of the elimination: report and return, or exclude and go on
Stage(here, next, score, threshold, finding, label) ==
    /\ dpc = here
    /\ IF score >= threshold
       THEN /\ result' = [result EXCEPT !.suspected_diseases = Append(@, finding)]
            /\ dpc' = "done"
       ELSE /\ result' = [result EXCEPT !.excluded_diseases = Append(@, label)]
            /\ dpc' = next
    /\ UNCHANGED <<symptoms_dict, planVars, dangerVars, scoreVars>>

CallDifferential ==
    /\ dpc = "idle"
    /\ \E d \in InputDicts : symptoms_dict' = d
    /\ result' = EmptyResult
    /\ dpc' = "cold"
    /\ UNCHANGED <<planVars, dangerVars, scoreVars>>

ColdStage ==
    Stage("cold", "sinusitis", cold_score(symptoms_dict), ColdThreshold,
          Finding("cold", cold_score(symptoms_dict), 4,
                  ColdConds(symptoms_dict), ColdSignNames),
          ColdLabel)

SinusitisStage ==
    Stage("sinusitis", "vasomotor", sinusitis_score(symptoms_dict), SinusitisThreshold,
          Finding("sinusitis", sinusitis_score(symptoms_dict), 6,
                  SinusitisConds(symptoms_dict), SinusitisSignNames),
          SinusitisLabel)

VasomotorStage ==
    Stage("vasomotor", "ar", vasomotor_score(symptoms_dict), VasomotorThreshold,
          Finding("vasomotor", vasomotor_score(symptoms_dict), 5,
                  VasomotorConds(symptoms_dict), VasomotorSignNames),
          VasomotorLabel)

ArStage ==
    /\ dpc = "ar"
    /\ IF ar_score(symptoms_dict) >= ArThreshold
       THEN result' = [result EXCEPT !.can_proceed_to_ar = TRUE,
                                     !.suggestions = Append(@, "proceed_to_tnss")]
       ELSE result' = [result EXCEPT !.suggestions = Append(@, "escalate")]
    /\ dpc' = "done"
    /\ UNCHANGED <<symptoms_dict, planVars, dangerVars, scoreVars>>

ReturnDifferential ==
    /\ dpc = "done"
    /\ dpc' = "idle"
    /\ symptoms_dict' = <<>>
    /\ result' = EmptyResult
    /\ UNCHANGED <<planVars, dangerVars, scoreVars>>

Init ==
    /\ dpc = "idle" /\ symptoms_dict = <<>> /\ result = EmptyResult
    /\ ppc = "idle" /\ plan_args = <<>> /\ plan = <<>>
    /\ gpc = "idle" /\ user_input = <<>> /\ detected = <<>>
    /\ spc = "idle" /\ symptoms = <<>> /\ tnss = 0 /\ severity = "none"

NextDiff ==
    \/ CallDifferential
    \/ ColdStage
    \/ SinusitisStage
    \/ VasomotorStage
    \/ ArStage
    \/ ReturnDifferential

SpecDiff == Init /\ [][NextDiff]_vars

(***************************************************************************)
(* generate_treatment_plan: inputs                                         *)
(***************************************************************************)
Severities == {"MILD", "MODERATE", "SEVERE"}
Patterns   == {"INTERMITTENT", "PERSISTENT"}

Ages == 0..MaxAge \cup {35}

\* Optional[float]: None, or a number (whole numbers stand for the floats)
None == [isNone |-> TRUE, value |-> 0]
Some(v) == [isNone |-> FALSE, value |-> v]
ClearanceValues == {None, Some(0), Some(29), Some(30)}

\* Python truthiness of an Optional[float]: None and 0 are falsy
Truthy(opt) == ~opt.isNone /\ opt.value # 0

MedicationLists == {<<>>, <<"aspirin">>, <<"clopidogrel">>, <<"metformin">>}

PatientInfo(age, preg, lact, asthma, glaucoma, bph, kidney, cc, meds, alcohol) ==
    [age |-> age, is_pregnant |-> preg, is_lactating |-> lact,
     has_asthma |-> asthma, has_glaucoma |-> glaucoma, has_bph |-> bph,
     has_hypertension |-> FALSE, has_heart_disease |-> FALSE,
     has_liver_disease |-> FALSE, has_kidney_disease |-> kidney,
     creatinine_clearance |-> cc, current_medications |-> meds,
     drug_allergies |-> <<>>, recent_alcohol |-> alcohol]

Patients ==
    { PatientInfo(a, f[1], f[2], f[3], f[4], f[5], f[6], cc, m, f[7]) :
        a \in Ages, f \in [1..7 -> BOOLEAN], cc \in ClearanceValues,
        m \in MedicationLists }

\* the two scores generate_treatment_plan reads range over SymptomLevels
SymptomLevels == 1..MaxLevel
PlanSymptoms ==
    { [sneeze |-> 1, rhinorrhea |-> 1, nasal_itch |-> i, nasal_congestion |-> c] :
        i \in SymptomLevels, c \in SymptomLevels }

(***************************************************************************)
(* generate_treatment_plan: plan entries                                   *)
(***************************************************************************)
SalineInfant ==
    [name |-> "saline_nasal_irrigation", dosage |-> "2-3_per_day",
     note |-> "only_safe_choice_for_infants"]
SalinePregnancy ==
    [name |-> "saline_nasal_irrigation", dosage |-> "3-4_per_day",
     priority |-> "first_choice", safety |-> "fully_safe"]
SalineLactation ==
    [name |-> "saline_nasal_irrigation", dosage |-> "2-3_per_day",
     safety |-> "fully_safe"]
SalineAdjunct ==
    [name |-> "saline_or_seawater_nasal_irrigation", frequency |-> "2-3_per_day",
     benefit |-> "removes_allergens"]
BudesonidePregnancy ==
    [name |-> "budesonide_nasal_spray", dosage |-> "once_daily_1-2_sprays",
     safety |-> "fda_category_b"]
LoratadinePregnancy ==
    [name |-> "loratadine", dosage |-> "10mg_once_daily",
     safety |-> "fda_category_b", note |-> "when_symptomatic"]
BudesonideLactation ==
    [name |-> "budesonide_nasal_spray", dosage |-> "once_daily_1-2_sprays",
     safety |-> "local_action"]
LoratadineLactation ==
    [name |-> "loratadine", dosage |-> "10mg_once_daily",
     safety |-> "little_enters_milk"]
OnDemandAntihistamine ==
    [name |-> "loratadine_or_nasal_antihistamine", dosage |-> "10mg_once_daily_as_needed",
     duration |-> "during_attacks"]
CorticosteroidFirstChoice ==
    [name |-> "nasal_corticosteroid_first_choice",
     options |-> <<"mometasone", "fluticasone", "budesonide">>,
     dosage |-> "once_daily_2_sprays", duration |-> "at_least_2-4_weeks"]
AntihistamineAsNeeded ==
    [name |-> "oral_antihistamine_adjunct",
     options |-> <<"loratadine", "desloratadine">>, dosage |-> "as_needed"]
CorticosteroidRequired ==
    [name |-> "nasal_corticosteroid_required",
     options |-> <<"mometasone", "fluticasone", "budesonide">>,
     dosage |-> "1-2_daily_2_sprays", duration |-> "at_least_4_weeks_then_taper"]
Decongestant ==
    [name |-> "nasal_decongestant_short_term", drug |-> "oxymetazoline",
     dosage |-> "1-2_sprays_twice_daily", duration |-> "at_most_3-5_days",
     warning |-> "rebound_rhinitis"]
OralAntihistamine ==
    [name |-> "oral_antihistamine",
     options |-> <<"loratadine", "desloratadine", "levocetirizine">>,
     dosage |-> "once_daily"]
Montelukast ==
    [name |-> "montelukast", dosage |-> "10mg_once_daily_evening",
     reason |-> "upper_and_lower_airway"]

GlaucomaContraindications ==
    <<"first_gen_antihistamines_chlorphenamine_etc", "nasal_decongestants_oxymetazoline_etc">>
BphContraindications == <<"first_gen_antihistamines", "pseudoephedrine">>
PregnancyContraindications ==
    <<"pseudoephedrine", "first_gen_antihistamines", "long_term_high_dose_nasal_decongestants">>

AsthmaWarning      == "asthma_exacerbation_risk"
AlcoholWarning     == "recent_alcohol_avoid_sedating_drugs"
AnticoagulantWarning == "anticoagulant_epistaxis_risk"
InfantInstruction  == "under_2_see_pediatrician"
RenalInstruction   == "renal_dose_adjustment"

(***************************************************************************)
(* generate_treatment_plan                                                 *)
(***************************************************************************)
EmptyPlan ==
    [primary_medications |-> <<>>, adjunct_therapies |-> <<>>,
     contraindications |-> <<>>, warnings |-> <<>>, special_instructions |-> <<>>]

pregnancy_plan(sev, patient) ==
    [primary_medications |->
        <<SalinePregnancy>> \o
        (IF sev \in {"MODERATE", "SEVERE"}
         THEN <<BudesonidePregnancy, LoratadinePregnancy>> ELSE <<>>),
     warnings |-> <<"pregnancy_consult_obstetrician">>,
     special_instructions |->
        <<"first_trimester_avoid_drugs", "later_trimesters_cautious_use">>,
     contraindications |-> PregnancyContraindications]

lactation_plan(sev, patient) ==
    [primary_medications |->
        <<SalineLactation>> \o
        (IF sev \in {"MODERATE", "SEVERE"}
         THEN <<BudesonideLactation, LoratadineLactation>> ELSE <<>>),
     warnings |-> <<"lactation_relatively_safe">>]

infant_plan ==
    [EmptyPlan EXCEPT !.primary_medications = Append(@, SalineInfant),
                      !.special_instructions = Append(@, InfantInstruction)]

\* lines 348-360: comorbidity contraindications
ComorbidityRules(p, patient) ==
    [p EXCEPT !.contraindications =
        @ \o (IF patient.has_glaucoma THEN GlaucomaContraindications ELSE <<>>)
          \o (IF patient.has_bph THEN BphContraindications ELSE <<>>)]

\* the congestion test with a strict comparison
CongestionRule_Strict(sym) == sym.nasal_congestion > 2
CongestionRule(sym) == sym.nasal_congestion >= 2
ItchRule(sym)       == sym.nasal_itch >= 2

\* lines 387-424: the moderate / severe regimen
ModerateSevereRegimen(p, patient, sym) ==
    [p EXCEPT
        !.primary_medications =
            @ \o <<CorticosteroidRequired>>
              \o (IF CongestionRule(sym) THEN <<Decongestant>> ELSE <<>>)
              \o (IF ItchRule(sym) THEN <<OralAntihistamine>> ELSE <<>>)
              \o (IF patient.has_asthma THEN <<Montelukast>> ELSE <<>>),
        !.warnings = @ \o (IF patient.has_asthma THEN <<AsthmaWarning>> ELSE <<>>)]

\* lines 362-424: primary regimen by severity and pattern
RegimenRules(p, sev, pat, patient, sym) ==
    IF sev = "MILD" /\ pat = "INTERMITTENT"
    THEN [p EXCEPT !.primary_medications = Append(@, OnDemandAntihistamine)]
    ELSE IF sev = "MILD" /\ pat = "PERSISTENT"
    THEN [p EXCEPT !.primary_medications =
                      @ \o <<CorticosteroidFirstChoice, AntihistamineAsNeeded>>]
    ELSE IF sev \in {"MODERATE", "SEVERE"}
    THEN ModerateSevereRegimen(p, patient, sym)
    ELSE p

\* lines 426-431
AdjunctRule(p) ==
    [p EXCEPT !.adjunct_therapies = Append(@, SalineAdjunct)]

\* lines 433-443
WarningRules(p, patient) ==
    [p EXCEPT !.warnings =
        @ \o (IF patient.recent_alcohol THEN <<AlcoholWarning>> ELSE <<>>)
          \o (IF InSeq("aspirin", patient.current_medications)
                 \/ InSeq("clopidogrel", patient.current_medications)
              THEN <<AnticoagulantWarning>> ELSE <<>>)]

\* lines 445-453
RenalRule(p, patient) ==
    IF patient.has_kidney_disease /\ Truthy(patient.creatinine_clearance)
       /\ patient.creatinine_clearance.value < 30
    THEN [p EXCEPT !.special_instructions = Append(@, RenalInstruction)]
    ELSE p

\* lines 348-455: the general rule table, applied to the plan built so far
general_plan(p, sev, pat, patient, sym) ==
    RenalRule(
      WarningRules(
        AdjunctRule(
          RegimenRules(ComorbidityRules(p, patient), sev, pat, patient, sym)),
        patient),
      patient)

\* the age test placed before the pregnancy and lactation tests
generate_treatment_plan_AgeFirst(sev, pat, patient, sym) ==
    IF patient.age < 2 THEN infant_plan
    ELSE IF patient.is_pregnant THEN pregnancy_plan(sev, patient)
    ELSE IF patient.is_lactating THEN lactation_plan(sev, patient)
    ELSE general_plan(EmptyPlan, sev, pat, patient, sym)

\* the age < 2 branch without its return: the general table still runs
generate_treatment_plan_InfantNoReturn(sev, pat, patient, sym) ==
    IF patient.is_pregnant THEN pregnancy_plan(sev, patient)
    ELSE IF patient.is_lactating THEN lactation_plan(sev, patient)
    ELSE general_plan(IF patient.age < 2 THEN infant_plan ELSE EmptyPlan,
                      sev, pat, patient, sym)

generate_treatment_plan(sev, pat, patient, sym) ==
    IF patient.is_pregnant THEN pregnancy_plan(sev, patient)
    ELSE IF patient.is_lactating THEN lactation_plan(sev, patient)
    ELSE IF patient.age < 2 THEN infant_plan
    ELSE general_plan(EmptyPlan, sev, pat, patient, sym)

CallPlan ==
    /\ ppc = "idle"
    /\ \E sev \in Severities, pat \in Patterns, patient \in Patients, sym \in PlanSymptoms :
          /\ plan_args' = [severity |-> sev, pattern |-> pat,
                           patient |-> patient, symptoms |-> sym]
          /\ plan' = generate_treatment_plan(sev, pat, patient, sym)
    /\ ppc' = "returned"
    /\ UNCHANGED <<diffVars, dangerVars, scoreVars>>

ReturnPlan ==
    /\ ppc = "returned"
    /\ ppc' = "idle"
    /\ plan_args' = <<>>
    /\ plan' = <<>>
    /\ UNCHANGED <<diffVars, dangerVars, scoreVars>>

NextPlan ==
    \/ CallPlan
    \/ ReturnPlan

SpecPlan == Init /\ [][NextPlan]_vars

(***************************************************************************)
(* Symptoms.validate, Symptoms.calculate_tnss, classify_severity           *)
(***************************************************************************)
FieldValues == (-1)..MaxField

SymptomsObjects ==
    [sneeze : FieldValues, rhinorrhea : FieldValues,
     nasal_itch : FieldValues, nasal_congestion : FieldValues]

Fields(s) == <<s.sneeze, s.rhinorrhea, s.nasal_itch, s.nasal_congestion>>

\* 0 <= field <= 3
InRange(field) == 0 <= field /\ field <= 3

\* validate: the first field out of range raises ValueError; nothing is assigned
RECURSIVE ValidateFrom(_, _)
ValidateFrom(fields, i) ==
    IF i > Len(fields) THEN "ok"
    ELSE IF ~InRange(fields[i]) THEN "ValueError"
    ELSE ValidateFrom(fields, i + 1)

validate(s) == ValidateFrom(Fields(s), 1)

calculate_tnss(s) == s.sneeze + s.rhinorrhea + s.nasal_itch + s.nasal_congestion

\* the first comparison made strict
classify_severity_Strict(tnss_score) ==
    IF tnss_score < 4 THEN "MILD"
    ELSE IF tnss_score <= 8 THEN "MODERATE"
    ELSE "SEVERE"

classify_severity(tnss_score) ==
    IF tnss_score <= 4 THEN "MILD"
    ELSE IF tnss_score <= 8 THEN "MODERATE"
    ELSE "SEVERE"

\* Symptoms(...): the dataclass constructor stores the four fields as given
NewSymptoms ==
    /\ spc = "idle"
    /\ symptoms' \in SymptomsObjects
    /\ spc' = "constructed"
    /\ UNCHANGED <<tnss, severity, diffVars, planVars, dangerVars>>

Validate ==
    /\ spc = "constructed"
    /\ spc' = IF validate(symptoms) = "ok" THEN "validated" ELSE "raised"
    /\ UNCHANGED <<symptoms, tnss, severity, diffVars, planVars, dangerVars>>

\* the harness calls calculate_tnss on an object it has not validated
CalculateTnss ==
    /\ spc \in {"constructed", "validated"}
    /\ tnss' = calculate_tnss(symptoms)
    /\ spc' = "scored"
    /\ UNCHANGED <<symptoms, severity, diffVars, planVars, dangerVars>>

ClassifySeverity ==
    /\ spc = "scored"
    /\ severity' = classify_severity(tnss)
    /\ spc' = "classified"
    /\ UNCHANGED <<symptoms, tnss, diffVars, planVars, dangerVars>>

ReturnScore ==
    /\ spc \in {"classified", "raised"}
    /\ spc' = "idle"
    /\ symptoms' = <<>>
    /\ tnss' = 0
    /\ severity' = "none"
    /\ UNCHANGED <<diffVars, planVars, dangerVars>>

NextScore ==
    \/ NewSymptoms
    \/ Validate
    \/ CalculateTnss
    \/ ClassifySeverity
    \/ ReturnScore

SpecScore == Init /\ [][NextScore]_vars

(***************************************************************************)
(* DangerSignalDetector                                                    *)
(***************************************************************************)
\* One token per Chinese character of the source; homophones get distinct tokens.
EMERGENCY_SIGNALS ==
    << [type |-> "asthma_attack",
        keywords |-> << <<"hu", "xi_inhale", "kun", "nan">>,
                        <<"chuan", "xi_breath">>,
                        <<"xiong", "men">>,
                        <<"wu", "fa", "ping", "wo">>,
                        <<"shuo", "hua", "kun", "nan">> >>,
        action |-> "emergency_asthma"],
       [type |-> "anaphylaxis",
        keywords |-> << <<"quan", "shen", "pi", "zhen">>,
                        <<"mian", "bu_part", "zhong", "zhang">>,
                        <<"hou", "tou", "shui", "zhong">>,
                        <<"xue", "ya", "xia", "jiang">>,
                        <<"yi", "shi_know", "gai", "bian">> >>,
        action |-> "emergency_anaphylaxis"],
       [type |-> "sinusitis_complication",
        keywords |-> << <<"gao", "re", "bu_not", "tui">>,
                        <<"ju", "lie", "tou", "tong">>,
                        <<"mian", "bu_part", "zhong", "zhang", "ya", "tong">>,
                        <<"shi_see", "li", "gai", "bian">> >>,
        action |-> "see_doctor_sinusitis_complication"],
       [type |-> "severe_epistaxis",
        keywords |-> << <<"bi", "chu", "xue", "bu_not", "zhi">>,
                        <<"da", "liang", "chu", "xue">>,
                        <<"tou", "yun">>,
                        <<"xin", "ji">> >>,
        action |-> "emergency_stop_bleeding"] >>

\* keyword in user_input: literal substring containment
Contains(text, keyword) ==
    \E i \in 0..(Len(text) - Len(keyword)) :
        \A j \in 1..Len(keyword) : text[i + j] = keyword[j]

\* the inner loop without its break
RECURSIVE ScanKeywords_NoBreak(_, _, _)
ScanKeywords_NoBreak(info, text, i) ==
    IF i > Len(info.keywords) THEN <<>>
    ELSE IF Contains(text, info.keywords[i])
         THEN <<[type |-> info.type, action |-> info.action]>>
              \o ScanKeywords_NoBreak(info, text, i + 1)
         ELSE ScanKeywords_NoBreak(info, text, i + 1)

\* the inner loop: the entries one category appends, from keyword i on
RECURSIVE ScanKeywords(_, _, _)
ScanKeywords(info, text, i) ==
    IF i > Len(info.keywords) THEN <<>>
    ELSE IF Contains(text, info.keywords[i])
         THEN <<[type |-> info.type, action |-> info.action]>>
         ELSE ScanKeywords(info, text, i + 1)

\* the outer loop over the table, in its insertion order
RECURSIVE ScanSignals(_, _)
ScanSignals(text, n) ==
    IF n > Len(EMERGENCY_SIGNALS) THEN <<>>
    ELSE ScanKeywords(EMERGENCY_SIGNALS[n], text, 1) \o ScanSignals(text, n + 1)

check_danger_signals(text) == ScanSignals(text, 1)

AllKeywords ==
    UNION { { EMERGENCY_SIGNALS[n].keywords[i] : i \in 1..Len(EMERGENCY_SIGNALS[n].keywords) }
            : n \in 1..Len(EMERGENCY_SIGNALS) }

\* filler text and pieces of trigger phrases
OtherFragments ==
    { <<"wo", "xian", "zai">>, <<"comma">>, <<"ya", "tong">>, <<"hu", "xi_inhale">>,
      <<"kun", "nan">>, <<"tou">>, <<"yun">> }

Fragments == AllKeywords \cup OtherFragments

RECURSIVE Texts(_)
Texts(n) ==
    IF n = 0 THEN { <<>> }
    ELSE Texts(n - 1) \cup { t \o f : t \in Texts(n - 1), f \in Fragments }

\* the harness input, and its first two clauses
danger_input ==
    <<"wo", "xian", "zai", "hu", "xi_inhale", "kun", "nan", "comma", "xiong", "men",
      "comma", "chuan", "bu_not", "guo", "qi">>

ExampleTexts == { danger_input, SubSeq(danger_input, 1, 10) }

InputTexts == Texts(MaxFragments) \cup ExampleTexts

CallDanger ==
    /\ gpc = "idle"
    /\ \E text \in InputTexts :
          /\ user_input' = text
          /\ detected' = check_danger_signals(text)
    /\ gpc' = "returned"
    /\ UNCHANGED <<diffVars, planVars, scoreVars>>

ReturnDanger ==
    /\ gpc = "returned"
    /\ gpc' = "idle"
    /\ user_input' = <<>>
    /\ detected' = <<>>
    /\ UNCHANGED <<diffVars, planVars, scoreVars>>

NextDanger ==
    \/ CallDanger
    \/ ReturnDanger

SpecDanger == Init /\ [][NextDanger]_vars

(***************************************************************************)
(* Properties of differential_diagnosis                                    *)
(***************************************************************************)
StageNames  == <<"cold", "sinusitis", "vasomotor">>
StageLabels == <<ColdLabel, SinusitisLabel, VasomotorLabel>>

\* which stage thresholds the input meets (cold >= 3, sinusitis >= 4, vasomotor >= 4)
ThresholdMet(d) ==
    <<cold_score(d) >= 3, sinusitis_score(d) >= 4, vasomotor_score(d) >= 4>>

\* index of the first stage whose threshold is met; 4 when none is
FirstMet(d) ==
    IF \E i \in 1..3 : ThresholdMet(d)[i]
    THEN CHOOSE i \in 1..3 : ThresholdMet(d)[i] /\ \A j \in 1..(i - 1) : ~ThresholdMet(d)[j]
    ELSE 4

\* C1: the stages run in the order cold, sinusitis, vasomotor, AR and the
\* function returns at the first stage whose threshold is met: at most one
\* finding, it is that of the first such stage, can_proceed_to_ar is false
\* whenever a finding is reported, and excluded_diseases holds exactly the
\* labels of the stages evaluated before the reporting one, in order.
C1_ShortCircuit ==
    dpc = "done" =>
        LET f == FirstMet(symptoms_dict) IN
        /\ Len(result.suspected_diseases) <= 1
        /\ (f <= 3) =>
              /\ Len(result.suspected_diseases) = 1
              /\ result.suspected_diseases[1].name = StageNames[f]
              /\ result.can_proceed_to_ar = FALSE
        /\ (f = 4) => result.suspected_diseases = <<>>
        /\ result.excluded_diseases = SubSeq(StageLabels, 1, f - 1)

\* an input meeting both the cold and the sinusitis threshold yields the cold finding only
C1_Witness ==
    /\ dpc = "done"
    /\ cold_score(symptoms_dict) >= 3
    /\ sinusitis_score(symptoms_dict) >= 4
    /\ Len(result.suspected_diseases) = 1
    /\ result.suspected_diseases[1].name = "cold"
    /\ result.excluded_diseases = <<>>

\* the vasomotor score as the claim C2 states it: an unset signal counts as absent
ClaimVasomotorScore(d) ==
      Weight(GetTruthy(d, "cold_air_trigger"), 2)
    + Weight(GetTruthy(d, "odor_trigger"), 2)
    + Weight(GetTruthy(d, "position_trigger"), 1)
    + Weight(~GetTruthy(d, "significant_itch"), 2)
    + Weight(~GetTruthy(d, "has_allergen"), 1)

VasomotorEvaluated ==
    /\ dpc \in {"ar", "done"}
    /\ Len(result.excluded_diseases) >= 2 \/ \E i \in 1..Len(result.suspected_diseases) :
                                                  result.suspected_diseases[i].name = "vasomotor"

VasomotorReported ==
    \E i \in 1..Len(result.suspected_diseases) :
        result.suspected_diseases[i].name = "vasomotor"

\* C2: in the vasomotor stage the absence-of-itch weight (+2) is added when
\* significant_itch is false and when it is unset, and the absence-of-allergen
\* weight (+1) when has_allergen is false and when it is unset: the stage
\* reports exactly when the score so computed is >= 4, and the finding's
\* signs list the itch sign exactly when significant_itch is false or unset.
C2_VasomotorAbsenceWeights ==
    VasomotorEvaluated =>
        /\ VasomotorReported <=> ClaimVasomotorScore(symptoms_dict) >= 4
        /\ VasomotorReported =>
              (InSeq("itch_not_significant", result.suspected_diseases[1].signs)
                 <=> ~GetTruthy(symptoms_dict, "significant_itch"))

\* the AR score as the claim C3 states it
ClaimArScore(d) ==
    LET on(k) == k \in DOMAIN d /\ d[k] = TRUE IN
      (IF on("has_sneeze") THEN 1 ELSE 0)
    + (IF on("has_clear_discharge") THEN 1 ELSE 0)
    + (IF on("significant_itch") THEN 2 ELSE 0)
    + (IF on("has_nasal_congestion") THEN 1 ELSE 0)
    + (IF on("recurrent") THEN 1 ELSE 0)
    + (IF on("has_allergen") THEN 2 ELSE 0)

\* C3: when no stage triggers, can_proceed_to_ar is true iff the AR score is
\* >= 5; the six-signal input (score 8) proceeds; the empty input reaches the
\* AR stage with score 0 and gets can_proceed_to_ar = false and exactly one
\* escalation suggestion.
C3_ArConfirmation ==
    dpc = "done" =>
        /\ result.suspected_diseases = <<>> =>
              /\ result.can_proceed_to_ar <=> ClaimArScore(symptoms_dict) >= 5
              /\ result.suggestions =
                    IF ClaimArScore(symptoms_dict) >= 5 THEN <<"proceed_to_tnss">>
                                                        ELSE <<"escalate">>
        /\ symptoms_dict = AllTrue(SixSignals) =>
              /\ ClaimArScore(symptoms_dict) = 8
              /\ result.suspected_diseases = <<>>
              /\ result.can_proceed_to_ar = TRUE
        /\ DOMAIN symptoms_dict = {} =>
              /\ ClaimArScore(symptoms_dict) = 0
              /\ result.suspected_diseases = <<>>
              /\ result.excluded_diseases = StageLabels
              /\ result.can_proceed_to_ar = FALSE
              /\ result.suggestions = <<"escalate">>

\* the six-signal input has been evaluated and proceeds to the AR workup
C3_Witness ==
    /\ dpc = "done"
    /\ symptoms_dict = AllTrue(SixSignals)
    /\ result.excluded_diseases = StageLabels
    /\ result.can_proceed_to_ar = TRUE

(***************************************************************************)
(* Properties of generate_treatment_plan                                   *)
(***************************************************************************)
Returned == ppc = "returned"

Names(entries) == [i \in 1..Len(entries) |-> entries[i].name]

HasList(p, key) == key \in DOMAIN p

ReachesGeneralTable(patient) ==
    ~patient.is_pregnant /\ ~patient.is_lactating /\ patient.age >= 2

\* C4: a pregnant patient always gets the pregnancy plan, whatever the other
\* attributes (age < 2 included): pseudoephedrine and first-generation
\* antihistamines are contraindicated, saline irrigation is the first primary
\* medication, and budesonide plus loratadine are primary medications exactly
\* when the severity is Moderate or Severe.
C4_PregnancyOverride ==
    (Returned /\ plan_args.patient.is_pregnant) =>
        /\ HasList(plan, "contraindications")
        /\ InSeq("pseudoephedrine", plan["contraindications"])
        /\ InSeq("first_gen_antihistamines", plan["contraindications"])
        /\ Len(plan["primary_medications"]) >= 1
        /\ plan["primary_medications"][1].name = "saline_nasal_irrigation"
        /\ InSeq("budesonide_nasal_spray", Names(plan["primary_medications"]))
             <=> plan_args.severity \in {"MODERATE", "SEVERE"}
        /\ InSeq("loratadine", Names(plan["primary_medications"]))
             <=> plan_args.severity \in {"MODERATE", "SEVERE"}

\* a pregnant patient recorded with age < 2 and glaucoma got the three-drug pregnancy plan
C4_Witness ==
    /\ Returned
    /\ plan_args.patient.is_pregnant
    /\ plan_args.patient.age < 2
    /\ plan_args.patient.has_glaucoma
    /\ plan_args.severity = "SEVERE"
    /\ Names(plan["primary_medications"]) =
          <<"saline_nasal_irrigation", "budesonide_nasal_spray", "loratadine">>

MinimalInfantPlan(p) ==
    /\ Len(p["primary_medications"]) = 1
    /\ p["primary_medications"][1].name = "saline_nasal_irrigation"
    /\ HasList(p, "special_instructions")
    /\ Len(p["special_instructions"]) = 1

\* C5 as stated: every patient with age < 2, whatever the other attributes
\* (pregnancy and lactation included), gets exactly one primary medication
\* (saline irrigation) and exactly one special instruction.
C5_Original ==
    (Returned /\ plan_args.patient.age < 2) => MinimalInfantPlan(plan)

\* C5 (amended): every patient with age < 2 who is neither pregnant nor
\* lactating, whatever the remaining attributes, the severity, the pattern and
\* the scores, gets exactly one primary medication (saline irrigation) and
\* exactly one special instruction.
C5_InfantPlan ==
    (Returned /\ plan_args.patient.age < 2
              /\ ~plan_args.patient.is_pregnant /\ ~plan_args.patient.is_lactating)
        => MinimalInfantPlan(plan)

\* an infant with comorbidities, severe symptoms and renal impairment got the minimal plan
C5_Witness ==
    /\ Returned
    /\ plan_args.patient.age < 2
    /\ ~plan_args.patient.is_pregnant /\ ~plan_args.patient.is_lactating
    /\ plan_args.patient.has_asthma /\ plan_args.patient.has_glaucoma
    /\ plan_args.patient.has_kidney_disease
    /\ plan_args.patient.creatinine_clearance = Some(29)
    /\ plan_args.severity = "SEVERE"
    /\ plan_args.symptoms.nasal_congestion >= 2
    /\ Names(plan["primary_medications"]) = <<"saline_nasal_irrigation">>
    /\ plan["special_instructions"] = <<InfantInstruction>>

\* the primary medications C6 expects, by name and in order
ExpectedModerateSevere(patient, sym) ==
    <<"nasal_corticosteroid_required">>
    \o (IF sym.nasal_congestion >= 2 THEN <<"nasal_decongestant_short_term">> ELSE <<>>)
    \o (IF sym.nasal_itch >= 2 THEN <<"oral_antihistamine">> ELSE <<>>)
    \o (IF patient.has_asthma THEN <<"montelukast">> ELSE <<>>)

\* C6: outside the special populations and for severity Moderate or Severe,
\* the primary medications are, in order: the nasal corticosteroid; the nasal
\* decongestant with its rebound warning iff nasal_congestion >= 2; the oral
\* antihistamine iff nasal_itch >= 2; the leukotriene antagonist iff asthma;
\* the asthma warning is in the warnings iff asthma.
C6_ModerateSevereRegimen ==
    (Returned /\ ReachesGeneralTable(plan_args.patient)
              /\ plan_args.severity \in {"MODERATE", "SEVERE"}) =>
        /\ Names(plan["primary_medications"]) =
              ExpectedModerateSevere(plan_args.patient, plan_args.symptoms)
        /\ \A i \in 1..Len(plan["primary_medications"]) :
              plan["primary_medications"][i].name = "nasal_decongestant_short_term"
                 => /\ "warning" \in DOMAIN plan["primary_medications"][i]
                    /\ plan["primary_medications"][i].warning = "rebound_rhinitis"
        /\ InSeq(AsthmaWarning, plan["warnings"]) <=> plan_args.patient.has_asthma

\* (Moderate, Persistent, age 35, asthma, congestion 2, itch 2) got all four entries
C6_Witness ==
    /\ Returned
    /\ plan_args.severity = "MODERATE" /\ plan_args.pattern = "PERSISTENT"
    /\ plan_args.patient.age = 35 /\ plan_args.patient.has_asthma
    /\ ReachesGeneralTable(plan_args.patient)
    /\ plan_args.symptoms.nasal_congestion = 2 /\ plan_args.symptoms.nasal_itch = 2
    /\ Names(plan["primary_medications"]) =
          <<"nasal_corticosteroid_required", "nasal_decongestant_short_term",
            "oral_antihistamine", "montelukast">>
    /\ InSeq(AsthmaWarning, plan["warnings"])

\* C7: every returned plan, on every branch and for every population, has the
\* saline irrigation entry among its adjunct therapies.
C7_UniversalSaline ==
    Returned =>
        /\ HasList(plan, "adjunct_therapies")
        /\ InSeq(SalineAdjunct.name, Names(plan["adjunct_therapies"]))

\* C8: in the general rule table the renal dose-adjustment instruction is
\* appended iff has_kidney_disease and a clearance value is present and < 30,
\* the value 0 included.
C8_RenalAdjustment ==
    (Returned /\ ReachesGeneralTable(plan_args.patient)) =>
        (InSeq(RenalInstruction, plan["special_instructions"])
           <=> /\ plan_args.patient.has_kidney_disease
               /\ ~plan_args.patient.creatinine_clearance.isNone
               /\ plan_args.patient.creatinine_clearance.value < 30)

(***************************************************************************)
(* Properties of check_danger_signals                                      *)
(***************************************************************************)
CategoryOrder ==
    <<"asthma_attack", "anaphylaxis", "sinusitis_complication", "severe_epistaxis">>

\* some trigger phrase of category n is a literal substring of text
Occurs(text, n) ==
    \E k \in 1..Len(EMERGENCY_SIGNALS[n].keywords) :
        LET kw == EMERGENCY_SIGNALS[n].keywords[k] IN
        \E i \in 1..(Len(text) - Len(kw) + 1) : SubSeq(text, i, i + Len(kw) - 1) = kw

Types(entries) == [i \in 1..Len(entries) |-> entries[i].type]

\* C9: a category is reported iff one of its phrases is a substring of the
\* text, at most once however many phrases occur, the categories are checked
\* independently, and the reported categories follow the table order.
C9_DangerSignals ==
    gpc = "returned" =>
        /\ Types(detected) =
              SelectIdx(CategoryOrder, [n \in 1..4 |-> Occurs(user_input, n)], 1)
        /\ \A i \in 1..Len(detected) :
              \E n \in 1..4 : /\ EMERGENCY_SIGNALS[n].type = detected[i].type
                              /\ EMERGENCY_SIGNALS[n].action = detected[i].action

\* a text holding two phrases of the asthma category: asthma_attack is reported once
C9_Witness ==
    /\ gpc = "returned"
    /\ Contains(user_input, <<"hu", "xi_inhale", "kun", "nan">>)
    /\ Contains(user_input, <<"xiong", "men">>)
    /\ Len(detected) = 1
    /\ detected[1].type = "asthma_attack"

(***************************************************************************)
(* Properties of the scoring functions                                     *)
(***************************************************************************)
AllInRange(s) == \A i \in 1..4 : Fields(s)[i] \in 0..3

SeverityStatePart ==
    /\ (spc \in {"scored", "classified"} /\ AllInRange(symptoms)) =>
          /\ tnss = symptoms.sneeze + symptoms.rhinorrhea
                    + symptoms.nasal_itch + symptoms.nasal_congestion
          /\ tnss \in 0..12
    /\ (spc = "classified" /\ AllInRange(symptoms)) =>
          /\ tnss \in 0..4  => severity = "MILD"
          /\ tnss \in 5..8  => severity = "MODERATE"
          /\ tnss \in 9..12 => severity = "SEVERE"
    /\ spc = "validated" => AllInRange(symptoms)
    /\ spc = "raised" => ~AllInRange(symptoms)

ValidateStepPart ==
    (spc = "constructed" /\ spc' \in {"validated", "raised"}) =>
        /\ symptoms' = symptoms
        /\ spc' = "raised" <=> ~AllInRange(symptoms)

\* C10: for fields all in [0,3] calculate_tnss returns their sum, which is in
\* [0,12], and classify_severity maps 0..4 to Mild, 5..8 to Moderate and 9..12
\* to Severe; validate raises exactly when some field is outside [0,3] and
\* never changes a field.
C10_ScoreAndSeverity == [] SeverityStatePart /\ [][ValidateStepPart]_vars

\* a validated score of total 4 was classified Mild
C10_Witness ==
    /\ spc = "classified"
    /\ AllInRange(symptoms)
    /\ tnss = 4
    /\ severity = "MILD"

(***************************************************************************)
(* Properties of the plan as a whole                                       *)
(***************************************************************************)
TreatmentPlanLists ==
    {"primary_medications", "adjunct_therapies", "contraindications",
     "warnings", "special_instructions"}

\* C11: every returned plan, on every branch (pregnancy, lactation, age < 2,
\* general rule table), carries all five lists of a treatment plan, each
\* possibly empty and none missing.
C11_FiveLists ==
    Returned => TreatmentPlanLists \subseteq DOMAIN plan

\* the drug class a primary medication entry belongs to, by its name
MedicationClass(name) ==
    CASE name = "nasal_decongestant_short_term" -> "nasal_decongestant"
      [] name \in {"nasal_corticosteroid_first_choice", "nasal_corticosteroid_required",
                   "budesonide_nasal_spray"} -> "nasal_corticosteroid"
      [] name \in {"loratadine_or_nasal_antihistamine", "oral_antihistamine_adjunct",
                   "oral_antihistamine", "loratadine"} -> "second_gen_antihistamine"
      [] name = "montelukast" -> "leukotriene_antagonist"
      [] OTHER -> "saline"

\* the drug class a contraindication label names
ContraindicatedClass(label) ==
    CASE label = "nasal_decongestants_oxymetazoline_etc" -> "nasal_decongestant"
      [] label = "long_term_high_dose_nasal_decongestants" -> "nasal_decongestant_long_term"
      [] label \in {"first_gen_antihistamines_chlorphenamine_etc",
                    "first_gen_antihistamines"} -> "first_gen_antihistamine"
      [] OTHER -> "pseudoephedrine"

\* C12: no returned plan lists as a primary medication a drug class that the
\* same plan lists as contraindicated; in particular a patient with glaucoma
\* never gets the nasal decongestant entry.
C12_NoContraindicatedPrimary ==
    (Returned /\ HasList(plan, "contraindications")) =>
        /\ \A i \in 1..Len(plan["primary_medications"]) :
           \A j \in 1..Len(plan["contraindications"]) :
              MedicationClass(plan["primary_medications"][i].name)
                 # ContraindicatedClass(plan["contraindications"][j])
        /\ (ReachesGeneralTable(plan_args.patient) /\ plan_args.patient.has_glaucoma) =>
              ~InSeq("nasal_decongestant_short_term", Names(plan["primary_medications"]))

====
